---- MODULE Spec2Model ----
(***************************************************************************)
(* Model of q1_2025_analysis.py: the load -> clean -> aggregate -> render  *)
(* pipeline of the Q1 2025 dashboard.                                      *)
(*                                                                         *)
(* Text cells are sequences of one-character strings, so that lower(),     *)
(* strip(), replace() and substring search are computed and not assumed.   *)
(* A missing cell (pandas NaN) is the value NaN.  A DataFrame is a record  *)
(* [columns, rows]; every row is a record over the columns plus "index",   *)
(* the pandas row label.  A Series produced by groupby / value_counts is a *)
(* function from its index labels to its values.                           *)
(***************************************************************************)
EXTENDS Integers, Sequences, FiniteSets, TLC

VARIABLES file_status, csv, pc, df, display, fig, raised, calls

vars == <<file_status, csv, pc, df, display, fig, raised, calls>>

(* ------------------------------ bounds -------------------------------- *)

\* Longest enumerated input table.
MaxRows == 2

\* Most aggregator calls made on one cleaned DataFrame.
MaxCalls == 1

(* ------------------------------- text --------------------------------- *)

NaN == <<"NaN">>

isna(x) == x = NaN

UpperToLower ==
    ("A" :> "a") @@ ("B" :> "b") @@ ("C" :> "c") @@ ("D" :> "d") @@
    ("E" :> "e") @@ ("F" :> "f") @@ ("G" :> "g") @@ ("H" :> "h") @@
    ("I" :> "i") @@ ("J" :> "j") @@ ("K" :> "k") @@ ("L" :> "l") @@
    ("M" :> "m") @@ ("N" :> "n") @@ ("O" :> "o") @@ ("P" :> "p") @@
    ("Q" :> "q") @@ ("R" :> "r") @@ ("S" :> "s") @@ ("T" :> "t") @@
    ("U" :> "u") @@ ("V" :> "v") @@ ("W" :> "w") @@ ("X" :> "x") @@
    ("Y" :> "y") @@ ("Z" :> "z")

\* str.lower()
lower(s) ==
    [i \in 1..Len(s) |->
        IF s[i] \in DOMAIN UpperToLower THEN UpperToLower[s[i]] ELSE s[i]]

\* `sub in s` for two strings
contains(s, sub) ==
    \E i \in 0..(Len(s) - Len(sub)) :
        \A j \in 1..Len(sub) : s[i + j] = sub[j]

\* str(x): a missing value prints as "nan"
str_nan == <<"n", "a", "n">>

str(x) == IF isna(x) THEN str_nan ELSE x

\* Series.str.contains(pat, case=False, na=False) on one cell; the patterns
\* used hold no regular-expression metacharacter.
str_contains(cell, pat) ==
    IF isna(cell) THEN FALSE ELSE contains(lower(cell), lower(pat))

RECURSIVE lstrip(_)
lstrip(s) == IF s # <<>> /\ Head(s) = " " THEN lstrip(Tail(s)) ELSE s

RECURSIVE rstrip(_)
rstrip(s) ==
    IF s # <<>> /\ s[Len(s)] = " " THEN rstrip(SubSeq(s, 1, Len(s) - 1)) ELSE s

\* str.strip()
strip(s) == rstrip(lstrip(s))

startswith(s, sub) ==
    Len(sub) <= Len(s) /\ \A j \in 1..Len(sub) : s[j] = sub[j]

\* str.replace(old, ''): every non-overlapping occurrence, left to right
RECURSIVE remove_all(_, _)
remove_all(s, old) ==
    IF s = <<>> THEN <<>>
    ELSE IF startswith(s, old) THEN remove_all(SubSeq(s, Len(old) + 1, Len(s)), old)
    ELSE <<Head(s)>> \o remove_all(Tail(s), old)

(* ---------------------------- keywords -------------------------------- *)

kw_sub_task == <<"s", "u", "b", "-", "t", "a", "s", "k">>
kw_bug == <<"b", "u", "g">>
kw_confirmed_bug == <<"c", "o", "n", "f", "i", "r", "m", "e", "d", "-", "b", "u", "g">>
kw_service_request == <<"s", "e", "r", "v", "i", "c", "e", "-", "r", "e", "q", "u", "e", "s", "t">>
kw_infra_related == <<"i", "n", "f", "r", "a", "-", "r", "e", "l", "a", "t", "e", "d">>
email_domain == <<"@", "u", "r", "b", "a", "n", "p", "i", "p", "e", "r", ".", "c", "o", "m">>

services ==
    << <<"a", "p", "i">>,
       <<"a", "p", "p">>,
       <<"a", "t", "l", "a", "s", "-", "w", "e", "b">>,
       <<"a", "u", "r", "e", "l", "i", "a">>,
       <<"e", "d", "i", "t", "o", "r">>,
       <<"f", "r", "o", "d", "o">>,
       <<"l", "u", "n", "a">>,
       <<"m", "e", "r", "a", "k", "i", "-", "s", "d", "k">>,
       <<"w", "e", "b">>,
       <<"p", "a", "y", "m", "e", "n", "t", "-", "s", "v", "c">> >>

allowed_people ==
    << <<"g", "a", "g", "a", "n">>,
       <<"g", "a", "n", "e", "s", "h">>,
       <<"a", "k", "s", "h", "a", "y">> >>

Status_Done == <<"D", "o", "n", "e">>
Status_InProgress == <<"I", "n", " ", "P", "r", "o", "g", "r", "e", "s", "s">>

JAN_S_1 == <<"J", "A", "N", "-", "S", "-", "1">>
JAN_S_2 == <<"J", "A", "N", "-", "S", "-", "2">>
FEB_S_1 == <<"F", "E", "B", "-", "S", "-", "1">>
FEB_S_2 == <<"F", "E", "B", "-", "S", "-", "2">>
FEB_S_3 == <<"F", "E", "B", "-", "S", "-", "3">>
FEB_S_4 == <<"F", "E", "B", "-", "S", "-", "4">>
MAR_S_1 == <<"M", "A", "R", "-", "S", "-", "1">>
MAR_S_2 == <<"M", "A", "R", "-", "S", "-", "2">>
APR_S_1 == <<"A", "P", "R", "-", "S", "-", "1">>

sprint_order == <<JAN_S_1, JAN_S_2, FEB_S_1, FEB_S_2, MAR_S_1, MAR_S_2>>

(* ------------------------- the input table ---------------------------- *)

Label_BugApi == <<"B", "u", "g", ",", " ", "a", "p", "i">>
Label_SubTask == <<"S", "u", "b", "-", "T", "a", "s", "k", ",", " ", "w", "e", "b">>
Label_ServiceApp == <<"s", "e", "r", "v", "i", "c", "e", "-", "r", "e", "q", "u", "e", "s", "t", ",", " ", "a", "p", "p">>
Label_InfraService == <<"i", "n", "f", "r", "a", "-", "r", "e", "l", "a", "t", "e", "d", ",", " ", "s", "e", "r", "v", "i", "c", "e", "-", "r", "e", "q", "u", "e", "s", "t">>
Label_FeatureAtlas == <<"f", "e", "a", "t", "u", "r", "e", ",", " ", "a", "t", "l", "a", "s", "-", "w", "e", "b">>
Label_ConfirmedBugInfra == <<"i", "n", "f", "r", "a", "-", "r", "e", "l", "a", "t", "e", "d", ",", " ", "c", "o", "n", "f", "i", "r", "m", "e", "d", "-", "b", "u", "g", ",", " ", "l", "u", "n", "a">>

Priority_P1 == <<"P", "1">>
Priority_P2 == <<"P", "2">>

Assignee_Gagan == <<"G", "a", "g", "a", "n", "@", "u", "r", "b", "a", "n", "p", "i", "p", "e", "r", ".", "c", "o", "m">>
Assignee_Ganesh == <<" ", "g", "a", "n", "e", "s", "h", " ">>
Assignee_Other == <<"p", "r", "i", "y", "a", "@", "u", "r", "b", "a", "n", "p", "i", "p", "e", "r", ".", "c", "o", "m">>

\* A date cell of the file: an ISO-8601 text of 2025 (month, day, hour),
\* some other text, or an empty cell.
IsoCell(mo, d, h) == [k |-> "iso", mo |-> mo, d |-> d, h |-> h]
TextDateCell == [k |-> "text", mo |-> 0, d |-> 0, h |-> 0]
NaNDateCell == [k |-> "nan", mo |-> 0, d |-> 0, h |-> 0]

\* An Estimate cell of the file: a number, some other text, or empty.
NumCell(v) == [k |-> "num", v |-> v]
TextNumCell == [k |-> "text", v |-> 0]
NaNNumCell == [k |-> "nan", v |-> 0]

DefaultRow ==
    [ ID |-> 1, Assignee |-> Assignee_Gagan, Labels |-> Label_FeatureAtlas,
      Status |-> Status_Done, Priority |-> Priority_P1, Estimate |-> NumCell(3),
      CycleName |-> JAN_S_1,
      Created |-> IsoCell(1, 1, 0), Completed |-> IsoCell(1, 3, 12),
      Updated |-> IsoCell(1, 3, 12), Started |-> IsoCell(1, 2, 0) ]

csv_columns ==
    <<"ID", "Assignee", "Labels", "Status", "Priority", "Estimate",
      "CycleName", "Created", "Completed", "Updated", "Started">>

\* The rows enumerated for the file, one family per group of columns the
\* operations read; the other columns keep DefaultRow's values.
LabelTexts ==
    { NaN, Label_BugApi, Label_SubTask, Label_ServiceApp, Label_InfraService,
      Label_FeatureAtlas, Label_ConfirmedBugInfra }

\* Rows that may share an identifier.
LabelRows ==
    { [DefaultRow EXCEPT !.ID = i, !.Labels = l] : i \in {1, 2}, l \in LabelTexts }

DateRows ==
    { [DefaultRow EXCEPT !.Created = c, !.Completed = d] :
        c \in { IsoCell(1, 1, 0), IsoCell(2, 30, 0), NaNDateCell },
        d \in { IsoCell(1, 3, 12), IsoCell(1, 1, 0), TextDateCell, NaNDateCell } }

TypeRows == { [DefaultRow EXCEPT !.Labels = l] : l \in LabelTexts }

SprintRows ==
    { [DefaultRow EXCEPT !.Status = s, !.Priority = w[1], !.CycleName = w[2]] :
        s \in { Status_Done, Status_InProgress },
        w \in { <<Priority_P1, JAN_S_1>>, <<Priority_P2, FEB_S_3>> } }
    \cup { [DefaultRow EXCEPT !.Priority = NaN, !.CycleName = FEB_S_4],
           [DefaultRow EXCEPT !.Status = Status_InProgress, !.CycleName = APR_S_1] }

PeopleRows ==
    { [DefaultRow EXCEPT !.Assignee = Assignee_Gagan, !.Estimate = TextNumCell],
      [DefaultRow EXCEPT !.Assignee = Assignee_Ganesh, !.Estimate = NumCell(2)],
      [DefaultRow EXCEPT !.Assignee = Assignee_Other, !.Estimate = NumCell(2)],
      [DefaultRow EXCEPT !.Assignee = NaN, !.Estimate = NaNNumCell] }

TimedRows ==
    { [DefaultRow EXCEPT !.Completed = d, !.CycleName = c] :
        d \in { IsoCell(1, 2, 0), NaNDateCell }, c \in { JAN_S_1, FEB_S_3 } }

Tables(rows) == UNION { [1..k -> rows] : k \in 0..MaxRows }

\* A table whose rows carry distinct identifiers, in order of appearance.
Numbered(t) == [i \in 1..Len(t) |-> [t[i] EXCEPT !.ID = i]]

\* {JAN-S-1: 3 done, FEB-S-3: 2 done}
VelocityExample ==
    Numbered([i \in 1..5 |->
        [DefaultRow EXCEPT !.CycleName = IF i <= 3 THEN JAN_S_1 ELSE FEB_S_3]])

\* priority P1 with 4 records, 3 of them Done
PriorityExample ==
    Numbered([i \in 1..4 |->
        [DefaultRow EXCEPT !.Status = IF i <= 3 THEN Status_Done ELSE Status_InProgress]])

\* The files the aggregators are run on.
AggregatorInputs ==
    { Numbered(t) : t \in Tables(TypeRows) \cup Tables(SprintRows)
                          \cup Tables(PeopleRows) \cup Tables(TimedRows) }
    \cup { VelocityExample, PriorityExample }

\* The files the loader, the cleaner and the render are run on.
PipelineInputs ==
    Tables(LabelRows)
    \cup { Numbered(t) : t \in Tables(DateRows) \cup Tables(PeopleRows) }
    \cup { VelocityExample }

(* ----------------------------- load_data ------------------------------ *)

SecondsPerDay == 86400

DaysInMonth == <<31, 28, 31, 30, 31, 30, 31, 31, 30, 31, 30, 31>>

RECURSIVE DaysBefore(_)
DaysBefore(mo) == IF mo <= 1 THEN 0 ELSE DaysInMonth[mo - 1] + DaysBefore(mo - 1)

NaT == [nat |-> TRUE, secs |-> 0]

\* pd.to_datetime(cell, format='ISO8601', errors='coerce'): seconds since
\* 2025-01-01T00:00:00, or NaT for an empty or unparseable cell.
to_datetime(cell) ==
    IF /\ cell.k = "iso"
       /\ cell.mo \in 1..12
       /\ cell.d \in 1..DaysInMonth[cell.mo]
       /\ cell.h \in 0..23
    THEN [nat |-> FALSE,
          secs |-> ((DaysBefore(cell.mo) + cell.d - 1) * 24 + cell.h) * 3600]
    ELSE NaT

\* A Cycle Time cell: None, or the fraction num / den of a day.
None == [na |-> TRUE, num |-> 0, den |-> 1]

total_days(completed, created) ==
    [na |-> FALSE, num |-> completed.secs - created.secs, den |-> SecondsPerDay]

\* the column initialised to 0 instead of None
cycle_time_default_zero(created, completed) ==
    IF ~(created.nat \/ completed.nat) THEN total_days(completed, created)
    ELSE [na |-> FALSE, num |-> 0, den |-> 1]

\* df.loc[mask, 'Cycle Time'] = (Completed - Created).dt.total_seconds() / 86400
cycle_time(created, completed) ==
    IF ~(created.nat \/ completed.nat) THEN total_days(completed, created) ELSE None

EmptyDataFrame == [columns |-> <<>>, rows |-> <<>>]

\* pd.read_csv: the file's rows under a RangeIndex; an empty text cell reads
\* as NaN already in the file contents.
read_csv(rows) ==
    [columns |-> csv_columns,
     rows |-> [i \in 1..Len(rows) |-> [index |-> i - 1] @@ rows[i]]]

parse_dates(r) ==
    [r EXCEPT !.Created = to_datetime(r.Created),
              !.Completed = to_datetime(r.Completed),
              !.Updated = to_datetime(r.Updated),
              !.Started = to_datetime(r.Started)]

add_cycle_time(r) == [CycleTime |-> cycle_time(r.Created, r.Completed)] @@ r

\* What open() raises for the file, "" when it opens.
open_error(status) ==
    CASE status = "absent" -> "FileNotFoundError"
      [] status = "unreadable" -> "PermissionError"
      [] OTHER -> ""

\* load_data(file_path): [exc, df, out]; exc is the exception that leaves
\* the function ("" for none), out the st.* calls it made.
load_data(status, rows) ==
    LET err == open_error(status)
        frame == read_csv(rows)
    IN  IF err = "FileNotFoundError"
        THEN [exc |-> "", df |-> EmptyDataFrame,
              out |-> <<[call |-> "error", arg |-> "File not found"]>>]
        ELSE IF err # ""
        THEN [exc |-> err, df |-> EmptyDataFrame, out |-> <<>>]
        ELSE [exc |-> "",
              df |-> [columns |-> Append(frame.columns, "CycleTime"),
                      rows |-> [i \in 1..Len(frame.rows) |->
                                   add_cycle_time(parse_dates(frame.rows[i]))]],
              out |-> <<>>]

\* DataFrame.empty
empty(frame) == Len(frame.rows) = 0 \/ Len(frame.columns) = 0

(* --------------------------- preprocess_data --------------------------- *)

\* drop_duplicates with keep='last'
drop_duplicates_keep_last(rows) ==
    LET pos(r) == CHOOSE i \in 1..Len(rows) : rows[i] = r
        last(r) == \A j \in (pos(r) + 1)..Len(rows) : rows[j].ID # r.ID
    IN  SelectSeq(rows, last)

\* df.drop_duplicates(subset='ID', keep='first'); df[mask] is SelectSeq:
\* the rows that satisfy the mask, in order, with their index labels.
drop_duplicates(rows) ==
    LET pos(r) == CHOOSE i \in 1..Len(rows) : rows[i] = r
        first(r) == \A j \in 1..(pos(r) - 1) : rows[j].ID # r.ID
    IN  SelectSeq(rows, first)

\* the filter without case=False
is_sub_task_case_sensitive(r) == ~isna(r.Labels) /\ contains(r.Labels, kw_sub_task)

is_sub_task(r) == str_contains(r.Labels, kw_sub_task)

\* pandas reads a column that holds no text cell at all as float64, and
\* Series.str on such a column raises AttributeError ("Can only use .str
\* accessor with string values"); "" when the accessor is available.
str_accessor_error(rows, col) ==
    IF rows # <<>> /\ \A i \in 1..Len(rows) : isna(rows[i][col])
    THEN "AttributeError" ELSE ""

\* preprocess_data(df): [exc, df]; exc is the exception that leaves the
\* function ("" for none), df the frame returned.
preprocess_data(frame) ==
    LET unique == drop_duplicates(frame.rows)
        keep(r) == ~is_sub_task(r)
        err == str_accessor_error(frame.rows, "Labels")
    IN  IF err # "" THEN [exc |-> err, df |-> frame]
        ELSE [exc |-> "", df |-> [frame EXCEPT !.rows = SelectSeq(unique, keep)]]

(* ----------------------------- aggregators ---------------------------- *)

\* Each aggregator is [df, fig, out]: the caller's DataFrame as the call
\* leaves it, the figure returned (NoFig for None) and the st.* calls made.

Title(text, arg) == [text |-> text, arg |-> arg]

NoFig == [title |-> Title("", <<>>), data |-> <<>>]

plotly_chart(f) == [call |-> "plotly_chart", arg |-> f]

\* The non-missing values of a column.
values(rows, col) == { rows[i][col] : i \in 1..Len(rows) } \ {NaN}

\* df.groupby(col).size(): one entry per non-missing key
groupby_size(rows, col) ==
    [k \in values(rows, col) |->
        Cardinality({ i \in 1..Len(rows) : rows[i][col] = k })]

\* df[col].value_counts(): one entry per non-missing value
value_counts(rows, col) ==
    [v \in values(rows, col) |->
        Cardinality({ i \in 1..Len(rows) : rows[i][col] = v })]

\* Series.reindex(order, fill_value=fill)
reindex(series, order, fill) ==
    [i \in 1..Len(order) |->
        [index |-> order[i],
         value |-> IF order[i] \in DOMAIN series THEN series[order[i]] ELSE fill]]

is_done(r) == r.Status = Status_Done

\* the rename table with its two targets exchanged
replace_sprint_swapped(c) ==
    IF c = FEB_S_3 THEN MAR_S_2 ELSE IF c = FEB_S_4 THEN MAR_S_1 ELSE c

\* Series.replace({'FEB-S-3': 'MAR-S-1', 'FEB-S-4': 'MAR-S-2'}) on one cell
replace_sprint(c) ==
    IF c = FEB_S_3 THEN MAR_S_1 ELSE IF c = FEB_S_4 THEN MAR_S_2 ELSE c

sprint_velocity_trend(frame) ==
    LET renamed ==
            [frame EXCEPT !.rows = [i \in 1..Len(frame.rows) |->
                [frame.rows[i] EXCEPT !.CycleName = replace_sprint(@)]]]
        completed_tasks ==
            reindex(groupby_size(SelectSeq(renamed.rows, is_done), "CycleName"),
                    sprint_order, 0)
    IN  [df |-> renamed,
         fig |-> [title |-> Title("Sprint Velocity (Tasks Completed per Sprint)", <<>>),
                  data |-> completed_tasks],
         out |-> <<>>]

PointsPerPersonWeek == 5

predicted_efficiency == 12

\* pd.to_numeric(cell, errors='coerce') followed by fillna(0)
to_numeric_fillna(cell) == IF cell.k = "num" THEN cell ELSE NumCell(0)

RECURSIVE sum_estimate(_)
sum_estimate(rows) ==
    IF rows = <<>> THEN 0 ELSE Head(rows).Estimate.v + sum_estimate(Tail(rows))

bandwidth_efficiency(frame) ==
    LET coerced ==
            [frame EXCEPT !.rows = [i \in 1..Len(frame.rows) |->
                [frame.rows[i] EXCEPT !.Estimate = to_numeric_fillna(@)]]]
        actual_efficiency ==
            [num |-> sum_estimate(coerced.rows), den |-> PointsPerPersonWeek]
    IN  [df |-> coerced,
         fig |-> [title |-> Title("Bandwidth Efficiency: Actual vs Predicted", <<>>),
                  data |-> << [Type |-> "Predicted Efficiency",
                               PersonWeeks |-> [num |-> predicted_efficiency, den |-> 1]],
                              [Type |-> "Actual Efficiency",
                               PersonWeeks |-> actual_efficiency] >>],
         out |-> <<>>]

clean_name(name) == strip(remove_all(lower(str(name)), email_domain))

\* available_weeks, in the order of its keys
available_weeks_keys ==
    << <<"g", "a", "n", "e", "s", "h">>,
       <<"g", "a", "g", "a", "n">>,
       <<"a", "k", "s", "h", "a", "y">> >>

available_weeks_values == <<4, 12, 12>>

DefaultAvailableWeeks == 12

\* available_weeks.get(next((k for k in available_weeks if k in person), None), 12)
predicted_weeks(person) ==
    LET hits == { i \in 1..Len(available_weeks_keys) :
                    contains(clean_name(person), available_weeks_keys[i]) }
    IN  IF hits = {} THEN DefaultAvailableWeeks
        ELSE available_weeks_values[CHOOSE i \in hits : \A j \in hits : i <= j]

is_allowed(r) ==
    \E i \in 1..Len(allowed_people) : contains(r.Assignee, allowed_people[i])

\* Works on df.copy(): the caller's DataFrame is returned as it came.
bandwidth_efficiency_per_person(frame) ==
    LET df_copy ==
            [i \in 1..Len(frame.rows) |->
                [frame.rows[i] EXCEPT
                    !.Assignee = clean_name(IF isna(@) THEN <<>> ELSE @)]]
        df_filtered ==
            LET kept == SelectSeq(df_copy, is_allowed)
            IN  [i \in 1..Len(kept) |->
                    [kept[i] EXCEPT !.Estimate = to_numeric_fillna(@)]]
        person_efficiency ==
            [a \in values(df_filtered, "Assignee") |->
                LET mine(r) == r.Assignee = a
                IN  [num |-> sum_estimate(SelectSeq(df_filtered, mine)),
                     den |-> PointsPerPersonWeek]]
    IN  [df |-> frame,
         fig |-> [title |-> Title("Bandwidth Efficiency Per Person: Actual vs Predicted", <<>>),
                  data |-> [a \in DOMAIN person_efficiency |->
                               [Predicted |-> predicted_weeks(a),
                                Actual |-> person_efficiency[a]]]],
         out |-> <<>>]

RECURSIVE sum_cycle_time(_)
sum_cycle_time(rows) ==
    IF rows = <<>> THEN 0 ELSE Head(rows).CycleTime.num + sum_cycle_time(Tail(rows))

\* df.groupby('Cycle Name')['Cycle Time'].mean(): missing cycle times are
\* skipped; a sprint with none has a missing mean.
task_completion_efficiency(frame) ==
    LET avg_cycle_time ==
            [c \in values(frame.rows, "CycleName") |->
                LET timed(r) == r.CycleName = c /\ ~r.CycleTime.na
                    grp == SelectSeq(frame.rows, timed)
                IN  IF grp = <<>> THEN None
                    ELSE [na |-> FALSE, num |-> sum_cycle_time(grp),
                          den |-> SecondsPerDay * Len(grp)]]
    IN  [df |-> frame,
         fig |-> [title |-> Title("Task Completion Efficiency (Average Cycle Time per Sprint)", <<>>),
                  data |-> avg_cycle_time],
         out |-> <<>>]

\* done / total * 100 on two Series: the result has the union of the two
\* indexes, and is missing where either Series has no entry.
series_rate(done, total) ==
    [p \in DOMAIN done \cup DOMAIN total |->
        IF p \in DOMAIN done /\ p \in DOMAIN total
        THEN [na |-> FALSE, num |-> done[p] * 100, den |-> total[p]]
        ELSE None]

priority_vs_completion(frame) ==
    LET priority_completion ==
            series_rate(groupby_size(SelectSeq(frame.rows, is_done), "Priority"),
                        groupby_size(frame.rows, "Priority"))
    IN  [df |-> frame,
         fig |-> [title |-> Title("Completion Rate by Priority", <<>>),
                  data |-> priority_completion],
         out |-> <<>>]

TaskType_Bug == <<"B", "u", "g">>
TaskType_ServiceRequest == <<"S", "e", "r", "v", "i", "c", "e", " ", "R", "e", "q", "u", "e", "s", "t">>
TaskType_Infrastructure == <<"I", "n", "f", "r", "a", "s", "t", "r", "u", "c", "t", "u", "r", "e">>
TaskType_Feature == <<"F", "e", "a", "t", "u", "r", "e", "/", "E", "n", "h", "a", "n", "c", "e", "m", "e", "n", "t">>

\* get_task_type nested in task_type_split_by_service
split_get_task_type(labels) ==
    LET labels_lower == lower(str(labels))
    IN  IF contains(labels_lower, kw_bug) \/ contains(labels_lower, kw_confirmed_bug)
        THEN TaskType_Bug
        ELSE IF contains(labels_lower, kw_service_request)
        THEN TaskType_ServiceRequest
        ELSE IF contains(labels_lower, kw_infra_related)
        THEN TaskType_Infrastructure
        ELSE TaskType_Feature

\* the classifier with the infra-related test ahead of service-request
get_task_type_infra_first(labels) ==
    LET labels_lower == lower(str(labels))
    IN  IF contains(labels_lower, kw_bug) \/ contains(labels_lower, kw_confirmed_bug)
        THEN TaskType_Bug
        ELSE IF contains(labels_lower, kw_infra_related)
        THEN TaskType_Infrastructure
        ELSE IF contains(labels_lower, kw_service_request)
        THEN TaskType_ServiceRequest
        ELSE TaskType_Feature

\* get_task_type nested in task_distribution_by_type
distribution_get_task_type(labels) ==
    LET labels_lower == lower(str(labels))
    IN  IF contains(labels_lower, kw_bug) \/ contains(labels_lower, kw_confirmed_bug)
        THEN TaskType_Bug
        ELSE IF contains(labels_lower, kw_service_request)
        THEN TaskType_ServiceRequest
        ELSE IF contains(labels_lower, kw_infra_related)
        THEN TaskType_Infrastructure
        ELSE TaskType_Feature

\* df['Task Type'] = task_types: the column is added, or overwritten
set_task_type(frame, task_types) ==
    [columns |-> IF \E i \in 1..Len(frame.columns) : frame.columns[i] = "TaskType"
                 THEN frame.columns ELSE Append(frame.columns, "TaskType"),
     rows |-> [i \in 1..Len(frame.rows) |->
                 [TaskType |-> task_types[i]] @@ frame.rows[i]]]

LowerToUpper == [c \in { UpperToLower[u] : u \in DOMAIN UpperToLower } |->
                    CHOOSE u \in DOMAIN UpperToLower : UpperToLower[u] = c]

\* str.upper()
upper(s) ==
    [i \in 1..Len(s) |->
        IF s[i] \in DOMAIN LowerToUpper THEN LowerToUpper[s[i]] ELSE s[i]]

\* the service filter with na=True
service_df_na_matches(rows, service) ==
    LET hit(r) == isna(r.Labels) \/ str_contains(r.Labels, service)
    IN  SelectSeq(rows, hit)

\* df[df['Labels'].str.contains(service, case=False, na=False)]
service_df(rows, service) ==
    LET hit(r) == str_contains(r.Labels, service)
    IN  SelectSeq(rows, hit)

task_type_split_by_service(frame) ==
    LET typed ==
            set_task_type(frame, [i \in 1..Len(frame.rows) |->
                                     split_get_task_type(frame.rows[i].Labels)])
        shown(service) == service_df(typed.rows, service) # <<>>
        with_data == SelectSeq(services, shown)
    IN  [df |-> typed,
         fig |-> NoFig,
         out |-> [j \in 1..Len(with_data) |->
                    plotly_chart(
                        [title |-> Title("Task Type Split for ", upper(with_data[j])),
                         data |-> value_counts(service_df(typed.rows, with_data[j]),
                                               "TaskType")])]]

task_distribution_by_type(frame) ==
    LET typed ==
            set_task_type(frame, [i \in 1..Len(frame.rows) |->
                                     distribution_get_task_type(frame.rows[i].Labels)])
    IN  [df |-> typed,
         fig |-> [title |-> Title("Task Distribution Across Task Types", <<>>),
                  data |-> value_counts(typed.rows, "TaskType")],
         out |-> <<>>]

(* --------------------------- create_dashboard -------------------------- *)

st(call, text) == [call |-> call, arg |-> text]

\* create_dashboard(): [exc, out]; exc is the exception that leaves it.
create_dashboard(status, rows) ==
    LET loaded == load_data(status, rows)
        head == <<st("title", "Direct Ordering Squad : Q1 2025 Insights")>> \o loaded.out
        cleaned == preprocess_data(loaded.df)
        clean == cleaned.df
        fig_team ==
            [title |-> Title("Task Distribution Across Team", <<>>),
             data |-> value_counts(clean.rows, "Assignee")]
        by_type == task_distribution_by_type(clean)
        fig_priority ==
            [title |-> Title("Task Distribution Across Priorities", <<>>),
             data |-> value_counts(by_type.df.rows, "Priority")]
        per_person == bandwidth_efficiency_per_person(by_type.df)
        by_service == task_type_split_by_service(per_person.df)
    IN  IF loaded.exc # "" THEN [exc |-> loaded.exc, out |-> head]
        ELSE IF empty(loaded.df)
        THEN [exc |-> "",
              out |-> Append(head, st("warning", "No data available to display. Please check the file path or data format."))]
        ELSE IF cleaned.exc # "" THEN [exc |-> cleaned.exc, out |-> head]
        ELSE [exc |-> "",
              out |-> head
                      \o <<plotly_chart(fig_team)>>
                      \o by_type.out \o <<plotly_chart(by_type.fig)>>
                      \o <<st("columns", "2"), plotly_chart(fig_priority)>>
                      \o <<st("header", "Bandwidth Efficiency Per Person: Actual vs Predicted")>>
                      \o per_person.out \o <<plotly_chart(per_person.fig)>>
                      \o <<st("header", "Task Type Split by Service")>>
                      \o by_service.out]

(* ------------------------------ the run -------------------------------- *)

InitOn(files) ==
    /\ file_status \in {"present", "absent", "unreadable"}
    /\ csv \in (IF file_status = "present" THEN files ELSE {<<>>})
    /\ pc = "start"
    /\ df = EmptyDataFrame
    /\ display = <<>>
    /\ fig = NoFig
    /\ raised = ""
    /\ calls = 0

Init == InitOn(AggregatorInputs)

InitPipeline == InitOn(PipelineInputs)

\* df = load_data(file_path)
LoadData ==
    /\ pc = "start"
    /\ LET res == load_data(file_status, csv)
       IN  /\ df' = res.df
           /\ display' = display \o res.out
           /\ raised' = res.exc
           /\ pc' = IF res.exc = "" THEN "loaded" ELSE "raised"
    /\ UNCHANGED <<file_status, csv, fig, calls>>

\* df = preprocess_data(df), called as create_dashboard calls it: on a
\* loaded frame that is not empty
PreprocessData ==
    /\ pc = "loaded"
    /\ ~empty(df)
    /\ LET res == preprocess_data(df)
       IN  /\ df' = res.df
           /\ raised' = res.exc
           /\ pc' = IF res.exc = "" THEN "clean" ELSE "raised"
    /\ UNCHANGED <<file_status, csv, display, fig, calls>>

\* fig = aggregator(df) on the cleaned DataFrame
Call(res) ==
    /\ pc = "clean"
    /\ calls < MaxCalls
    /\ calls' = calls + 1
    /\ df' = res.df
    /\ fig' = res.fig
    /\ display' = display \o res.out
    /\ UNCHANGED <<file_status, csv, pc, raised>>

SprintVelocityTrend == Call(sprint_velocity_trend(df))

BandwidthEfficiency == Call(bandwidth_efficiency(df))

BandwidthEfficiencyPerPerson ==
    Call(bandwidth_efficiency_per_person(df))

TaskCompletionEfficiency ==
    Call(task_completion_efficiency(df))

PriorityVsCompletion == Call(priority_vs_completion(df))

TaskTypeSplitByService ==
    Call(task_type_split_by_service(df))

TaskDistributionByType ==
    Call(task_distribution_by_type(df))

\* One render: create_dashboard() from start to return (or to the exception
\* that leaves it).
CreateDashboard ==
    /\ pc = "start"
    /\ LET res == create_dashboard(file_status, csv)
       IN  /\ display' = display \o res.out
           /\ raised' = res.exc
           /\ pc' = IF res.exc = "" THEN "rendered" ELSE "raised"
    /\ UNCHANGED <<file_status, csv, df, fig, calls>>

Next ==
    \/ LoadData
    \/ PreprocessData
    \/ SprintVelocityTrend
    \/ BandwidthEfficiency
    \/ BandwidthEfficiencyPerPerson
    \/ TaskCompletionEfficiency
    \/ PriorityVsCompletion
    \/ TaskTypeSplitByService
    \/ TaskDistributionByType
    \/ CreateDashboard

Spec == Init /\ [][Next]_vars

\* The render and its first two steps alone, on the wider set of files.
NextPipeline == LoadData \/ PreprocessData \/ CreateDashboard

SpecPipeline == InitPipeline /\ [][NextPipeline]_vars

(* ------------------------------ properties ----------------------------- *)

Present == file_status = "present"

\* Row n of the file is a row of the current DataFrame.
Survives(n) == \E i \in 1..Len(df.rows) : df.rows[i].index = n - 1

\* Row n of the file is the first one with its identifier.
FirstOfId(n) == \A m \in 1..(n - 1) : csv[m].ID # csv[n].ID

HasColumn(c) == \E i \in 1..Len(df.columns) : df.columns[i] = c

HasSubTask(text) == ~isna(text) /\ contains(lower(text), kw_sub_task)

\* The ordered first-match rule on the lower-cased label text; an absent
\* text matches nothing.
FirstMatch(text) ==
    LET has(kw) == ~isna(text) /\ contains(lower(text), kw)
    IN  CASE has(<<"b", "u", "g">>) -> TaskType_Bug
          [] ~has(<<"b", "u", "g">>) /\ has(kw_service_request) -> TaskType_ServiceRequest
          [] ~has(<<"b", "u", "g">>) /\ ~has(kw_service_request) /\ has(kw_infra_related)
                -> TaskType_Infrastructure
          [] OTHER -> TaskType_Feature

TaskTypes ==
    { TaskType_Bug, TaskType_ServiceRequest, TaskType_Infrastructure, TaskType_Feature }

\* C1: whenever preprocess_data returns, no two rows of its output share an
\* ID, and every surviving row is the first row of the input with that ID
\* (same position, same ID, same label text), never a later duplicate.
C1_DedupKeepsFirst ==
    pc = "clean" =>
        /\ \A i, j \in 1..Len(df.rows) :
              i # j => df.rows[i].ID # df.rows[j].ID
        /\ \A i \in 1..Len(df.rows) :
              LET n == df.rows[i].index + 1
              IN  /\ n \in 1..Len(csv)
                  /\ csv[n].ID = df.rows[i].ID
                  /\ csv[n].Labels = df.rows[i].Labels
                  /\ FirstOfId(n)

\* A later row repeats an ID with another label text, and the earlier row
\* is the one in the output.
C1_Witness ==
    /\ pc = "clean"
    /\ \E m, n \in 1..Len(csv) :
          /\ m < n
          /\ csv[m].ID = csv[n].ID
          /\ csv[m].Labels # csv[n].Labels
          /\ Survives(m)

C3_ClassifiersAgree ==
    pc = "clean" =>
        /\ \A n \in 1..Len(csv) :
              /\ split_get_task_type(csv[n].Labels) = FirstMatch(csv[n].Labels)
              /\ distribution_get_task_type(csv[n].Labels) = FirstMatch(csv[n].Labels)
        /\ HasColumn("TaskType") =>
              \A i \in 1..Len(df.rows) :
                  /\ df.rows[i].TaskType \in TaskTypes
                  /\ df.rows[i].TaskType = FirstMatch(df.rows[i].Labels)

\* A classified frame with a row whose text names two categories and a row
\* with no label text.
C3_Witness ==
    /\ pc = "clean"
    /\ HasColumn("TaskType")
    /\ \E i, j \in 1..Len(df.rows) :
          /\ df.rows[i].Labels = Label_InfraService
          /\ df.rows[i].TaskType = TaskType_ServiceRequest
          /\ isna(df.rows[j].Labels)
          /\ df.rows[j].TaskType = TaskType_Feature

\* C4: for every row load_data returns, Cycle Time is present exactly when
\* Created and Completed both parsed to a timestamp; when present it is
\* (Completed - Created) in seconds / 86400, so 2025-01-01T00 to
\* 2025-01-03T12 is 2.5 days; when absent (an empty cell, other text, or
\* a date that does not exist such as 30 February) it is None, not 0.
C4_CycleTime ==
    (pc \in {"loaded", "clean"} /\ Present) =>
        \A i \in 1..Len(df.rows) :
            LET r == df.rows[i]
                raw == csv[r.index + 1]
            IN  /\ ~r.CycleTime.na <=> (~r.Created.nat /\ ~r.Completed.nat)
                /\ ~r.CycleTime.na =>
                      /\ r.CycleTime.num = r.Completed.secs - r.Created.secs
                      /\ r.CycleTime.den = 86400
                /\ r.CycleTime.na => r.CycleTime = None
                /\ (raw.Created = IsoCell(1, 1, 0) /\ raw.Completed = IsoCell(1, 3, 12)) =>
                      /\ ~r.CycleTime.na
                      /\ r.Completed.secs - r.Created.secs = 216000
                      /\ 2 * r.CycleTime.num = 5 * r.CycleTime.den
                /\ (raw.Created.k # "iso" \/ raw.Completed.k # "iso") => r.CycleTime.na
                /\ raw.Created = IsoCell(2, 30, 0) => r.CycleTime.na

\* One loaded row has a cycle time of 2.5 days and another has none.
C4_Witness ==
    /\ pc = "loaded"
    /\ \E i, j \in 1..Len(df.rows) :
          /\ ~df.rows[i].CycleTime.na
          /\ df.rows[i].CycleTime.num = 216000
          /\ df.rows[j].CycleTime.na
          /\ df.rows[j].Completed.nat

\* The priorities that occur in the current DataFrame.
Priorities == { df.rows[i].Priority : i \in 1..Len(df.rows) } \ {NaN}

WithPriority(p) == { i \in 1..Len(df.rows) : df.rows[i].Priority = p }

DoneWithPriority(p) == { i \in WithPriority(p) : df.rows[i].Status = Status_Done }

IsPriorityFig == fig.title.text = "Completion Rate by Priority"

\* C5: for every priority that occurs, also one with no Done record, the
\* rate priority_vs_completion emits is Done records / records x 100.
C5_CompletionRate ==
    IsPriorityFig =>
        \A p \in Priorities :
            /\ p \in DOMAIN fig.data
            /\ ~fig.data[p].na
            /\ fig.data[p].num * Cardinality(WithPriority(p))
                  = Cardinality(DoneWithPriority(p)) * 100 * fig.data[p].den

Charts(title) ==
    { i \in 1..Len(display) :
        display[i].call = "plotly_chart" /\ display[i].arg.title.text = title }

\* C6: a render whose loaded record set is not empty puts exactly one each
\* of the team, task-type, priority, velocity, per-person efficiency, team
\* efficiency and cycle-time-per-sprint charts on the display.
C6_AllCharts ==
    (pc = "rendered" /\ Present /\ csv # <<>>) =>
        \A t \in { "Task Distribution Across Team",
                   "Task Distribution Across Task Types",
                   "Task Distribution Across Priorities",
                   "Sprint Velocity (Tasks Completed per Sprint)",
                   "Bandwidth Efficiency Per Person: Actual vs Predicted",
                   "Bandwidth Efficiency: Actual vs Predicted",
                   "Task Completion Efficiency (Average Cycle Time per Sprint)" } :
            Cardinality(Charts(t)) = 1

Calls(name) == { i \in 1..Len(display) : display[i].call = name }

\* C7: with the file absent or unreadable nothing is raised: load_data
\* reports the failure and returns an empty frame, and the render shows the
\* warning and no chart.
C7_MissingSource ==
    file_status \in {"absent", "unreadable"} =>
        /\ raised = ""
        /\ pc = "loaded" => (empty(df) /\ Calls("error") # {})
        /\ pc = "rendered" =>
              (Calls("error") # {} /\ Calls("warning") # {} /\ Calls("plotly_chart") = {})

IsVelocityFig == fig.title.text = "Sprint Velocity (Tasks Completed per Sprint)"

Renamed(c) ==
    CASE c = FEB_S_3 -> MAR_S_1
      [] c = FEB_S_4 -> MAR_S_2
      [] OTHER -> c

\* The Done rows of the file that reached the aggregator and, after the
\* rename, belong to the sprint.
DoneInSprint(sprint) ==
    { n \in 1..Len(csv) :
        /\ Survives(n)
        /\ csv[n].Status = Status_Done
        /\ Renamed(csv[n].CycleName) = sprint }

\* C8: sprint_velocity_trend renames FEB-S-3 to MAR-S-1 and FEB-S-4 to
\* MAR-S-2, counts the Done records per sprint, and gives exactly one count
\* for each of JAN-S-1, JAN-S-2, FEB-S-1, FEB-S-2, MAR-S-1, MAR-S-2 in that
\* order, 0 where a sprint has no Done record; {JAN-S-1: 3, FEB-S-3: 2}
\* gives 3, 0, 0, 0, 2, 0.
C8_Velocity ==
    IsVelocityFig =>
        /\ [i \in 1..Len(fig.data) |-> fig.data[i].index]
              = <<JAN_S_1, JAN_S_2, FEB_S_1, FEB_S_2, MAR_S_1, MAR_S_2>>
        /\ \A i \in 1..Len(fig.data) :
              fig.data[i].value = Cardinality(DoneInSprint(fig.data[i].index))
        /\ \A i \in 1..Len(df.rows) : df.rows[i].CycleName \notin {FEB_S_3, FEB_S_4}
        /\ csv = VelocityExample =>
              [i \in 1..Len(fig.data) |-> fig.data[i].value] = <<3, 0, 0, 0, 2, 0>>

C8_Witness ==
    /\ IsVelocityFig
    /\ csv = VelocityExample
    /\ fig.data[1].value = 3
    /\ fig.data[5].value = 2

\* The rows whose label text contains the service name.
Matching(rows, service) ==
    { i \in 1..Len(rows) :
        ~isna(rows[i].Labels) /\ contains(lower(rows[i].Labels), service) }

MatchedServices(rows) ==
    { k \in 1..Len(services) : Matching(rows, services[k]) # {} }

\* The Task Type counts of the rows in idx.
TypeCounts(rows, idx) ==
    [t \in { FirstMatch(rows[i].Labels) : i \in idx } |->
        Cardinality({ i \in idx : FirstMatch(rows[i].Labels) = t })]

\* The charts the step appended to the display.
Appended == SubSeq(display', Len(display) + 1, Len(display'))

\* The step is a call that returned no figure: task_type_split_by_service.
SplitStep == pc = "clean" /\ calls' = calls + 1 /\ fig'.title.text = ""

C9_Step ==
    SplitStep =>
        /\ Len(Appended) = Cardinality(MatchedServices(df.rows))
        /\ \A k \in MatchedServices(df.rows) :
              \E j \in 1..Len(Appended) :
                  /\ Appended[j].call = "plotly_chart"
                  /\ Appended[j].arg.title.arg = upper(services[k])
                  /\ Appended[j].arg.data
                        = TypeCounts(df.rows, Matching(df.rows, services[k]))
                  /\ j = Cardinality({ h \in MatchedServices(df.rows) : h <= k })

\* C9: task_type_split_by_service emits a chart for a service of the list
\* exactly when some record's label text contains its name (any letter
\* case, absent text never matching): as many charts as such services, in
\* list order, each with the Task Type counts of the matching records.
C9_ServiceCharts == [][C9_Step]_vars

\* The last call was task_type_split_by_service; it emitted charts for
\* several services and skipped others.
C9_Witness ==
    /\ pc = "clean"
    /\ calls = 1
    /\ fig.title.text = ""
    /\ Len(display) = Cardinality(MatchedServices(df.rows))
    /\ Len(display) >= 3
    /\ Len(display) < Len(services)

\* C10: an aggregator call leaves the record set passed to it unchanged
\* (same records, same field values, no field added).
C10_AggregatorsPure ==
    [][(pc = "clean" /\ pc' = "clean") => df' = df]_vars

====
